---- MODULE Spec2Model ----
(***************************************************************************)
(* Model of the FovDark loader.                                            *)
(*                                                                         *)
(*   loader_fovdark_corrigido_pyqt6.py : the PyQt6 window (FovDarkLoader), *)
(*       its two background threads (LoginWorker, ExecuteWorker) and the   *)
(*       queued signals between them;                                      *)
(*   loader-example.py : FovDarkLicenseChecker and its heartbeat loop.     *)
(*                                                                         *)
(* The remote service is the environment: every response it can give is a  *)
(* nondeterministic input of the step that receives it.  An optional JSON  *)
(* field is a sequence of length 0 (absent) or 1 (present).                *)
(***************************************************************************)
EXTENDS Integers, Sequences, FiniteSets, TLC

\* ------------------------------------------------------------------ bounds

\* Largest days_remaining value the service reports in the model.
MaxDays == 5

\* Largest timeRemaining.totalMinutes value the service reports in the model.
MaxMinutes == 2

\* Heartbeats one run of start_license_monitoring sends in the model.
MaxHeartbeats == 3

\* ------------------------------------------------------------ JSON helpers

\* dict.get(key, default) on an optional field.
Get(opt, default) == IF opt = <<>> THEN default ELSE opt[1]

\* ------------------------------------------------- service responses (env)

\* A response as the requests library hands it to the caller: either an
\* exception (err # "none") or an HTTP response with a status and a body.
\*   err    : "none" | "timeout" (requests.exceptions.Timeout)
\*            | "conn" (requests.exceptions.ConnectionError)
\*            | "other" (any other exception of the call)
\*   json   : the body parses as a JSON object
\*   token, valid, days, total : optional fields of the body
Resp(err, status, json, token, valid, days, total) ==
    [err |-> err, status |-> status, json |-> json, token |-> token,
     valid |-> valid, days |-> days, total |-> total]

ErrResp(err) == Resp(err, 0, FALSE, <<>>, <<>>, <<>>, <<>>)

TransportErrors == {"timeout", "conn", "other"}

OptBool == {<<>>, <<TRUE>>, <<FALSE>>}

AuthResponses ==
    {ErrResp(e) : e \in TransportErrors}
    \cup {Resp("none", s, FALSE, <<>>, <<>>, <<>>, <<>>) : s \in {200, 401}}
    \cup {Resp("none", s, TRUE, t, <<>>, <<>>, <<>>) :
            s \in {200, 401}, t \in {<<>>, <<"T1">>}}

CheckResponses ==
    {ErrResp(e) : e \in TransportErrors}
    \cup {Resp("none", s, FALSE, <<>>, <<>>, <<>>, <<>>) : s \in {200, 500}}
    \cup {Resp("none", s, TRUE, <<>>, v, d, <<>>) :
            s \in {200, 500}, v \in OptBool, d \in {<<>>, <<0>>, <<MaxDays>>}}

BindResponses ==
    {ErrResp(e) : e \in TransportErrors}
    \cup {Resp("none", s, TRUE, <<>>, <<>>, <<>>, <<>>) : s \in {200, 403}}

\* ------------------------------------------------------- signals (events)

\* pyqtSignal(int), pyqtSignal(str), pyqtSignal(bool, str) of both workers.
Progress(n) == [sig |-> "progress", n |-> n, ok |-> FALSE, text |-> ""]
Status(t) == [sig |-> "status", n |-> 0, ok |-> FALSE, text |-> t]
Finished(ok, t) == [sig |-> "finished", n |-> 0, ok |-> ok, text |-> t]

\* ---------------------------------------------------------------- state

VARIABLES
    entries_enabled,       \* entry_email, entry_senha, check_lembrar .isEnabled()
    btn_login_enabled,     \* btn_login.isEnabled()
    btn_executar_enabled,  \* btn_executar.isEnabled()
    btn_executar_visible,  \* btn_executar.isVisible()
    ui_pc,                 \* where the interactive thread is: "idle" (event loop)
                           \* or inside a handler, blocked in show_message
    dialog,                \* the CustomMessageBox on screen: <<>> or <<[title, message, msg_type]>>
    ui_queue,              \* queued worker signals not yet delivered to the window
    lws,                   \* the LoginWorker threads alive (the window's login_worker is the last)
    ews,                   \* the ExecuteWorker threads alive (execute_worker is the last)
    logged_in,             \* history: some LoginWorker of this process has emitted finished(True, ...)
    program,               \* which script this process runs: "loader" or "example"
    mon_pc,                \* loader-example.py: where main / start_license_monitoring is
    mon_calls,             \* the requests FovDarkLicenseChecker has sent, in order
    mon_bodies,            \* the json= bodies of those requests, in order
    mon_resps,             \* the answers it has received, in order
    status,                \* local of start_license_monitoring: <<>> or <<dict>>
    heartbeat,             \* local of start_license_monitoring: <<>> or <<dict>>
    mon_ret,               \* what start_license_monitoring returned: <<>> or <<bool>>
    main_out,              \* the branch main() took on that return value
    machine,               \* the attributes of the computer the process runs on
    uuid_node,             \* the uuid module's cached getnode() result: <<>> or <<n>>
    printed,               \* the lines start_license_monitoring has printed, in order
    balance,               \* the service's side: <<>> when it may answer anything, <<n>>
                           \* when it keeps n minutes for the license and reports them
    mon_trace,             \* the steps start_license_monitoring has taken, in order
    hwid,                  \* FovDarkLicenseChecker.hwid: <<>> before __init__, then <<value>>
    stop_at                \* the stop request of whoever runs the script: <<>>, or
                           \* <<n>> once raised, n the requests sent until then

vars == <<entries_enabled, btn_login_enabled, btn_executar_enabled,
          btn_executar_visible, ui_pc, dialog, ui_queue, lws, ews, logged_in,
          program, mon_pc, mon_calls, mon_resps, status, heartbeat, mon_ret,
          main_out, machine, uuid_node, printed, mon_trace, balance, hwid, stop_at,
          mon_bodies>>

\* The state of loader-example.py, which the window and its workers never touch.
example == <<program, mon_pc, mon_calls, mon_resps, status, heartbeat, mon_ret,
             main_out, printed, mon_trace, balance, hwid, stop_at, mon_bodies>>

\* What the process reads of its computer, and the uuid module's cache.
host == <<machine, uuid_node>>

\* The state of loader_fovdark_corrigido_pyqt6.py.
loader == <<entries_enabled, btn_login_enabled, btn_executar_enabled,
            btn_executar_visible, ui_pc, dialog, ui_queue, lws, ews, logged_in>>

ui_widgets == <<entries_enabled, btn_login_enabled, btn_executar_enabled,
                btn_executar_visible>>

\* A worker thread: its position, the requests it has sent, the responses it
\* has received and the signals it has emitted, in order.
\* hwid_atual is the local of LoginWorker.run: <<>> until it is assigned.
\* save_json is the json= body of the /api/hwid/save request: <<>> until sent.
NewWorker ==
    [pc |-> "started", calls |-> <<>>, resps |-> <<>>, events |-> <<>>,
     hwid_atual |-> <<>>, save_json |-> <<>>]

Running(w) == w.pc # "done"

RunningOnes(ws) == SelectSeq(ws, Running)

\* ------------------------------------------------------------ fingerprint

\* The computers of the model.  mac is the hardware address uuid.getnode()
\* finds (<<>> when it finds none); computername and username are the
\* environment variables COMPUTERNAME and USERNAME (<<>> when unset); node,
\* processor and system are platform.node(), .processor() and .system().
\* Addresses are kept below 2^20: the example script reads bits 0 to 17.
Machines ==
    {[mac |-> <<173495>>, computername |-> <<"PC1">>, username |-> <<"ana">>,
      node |-> "PC1", processor |-> "Intel64", system |-> "Windows"],
     [mac |-> <<>>, computername |-> <<>>, username |-> <<>>,
      node |-> "box", processor |-> "", system |-> "Linux"]}

\* The numbers uuid.getnode() may make up when it finds no hardware address.
RandomNodes == {115673, 200449}

\* A getnode() that chooses again at every call without a hardware address.
uuid_getnode_uncached(cache, random) ==
    IF machine.mac # <<>> THEN machine.mac[1] ELSE random

\* uuid.getnode(): the value found before in this process if there is one,
\* else the hardware address, else a random number; the result is kept.
uuid_getnode(cache, random) ==
    IF cache # <<>> THEN cache[1]
    ELSE IF machine.mac # <<>> THEN machine.mac[1]
    ELSE random

\* The results of Len(randoms) successive getnode() calls, the first made
\* with the cache `cache`; randoms[k] is what call k would make up.
RECURSIVE GetNodes(_, _)
GetNodes(cache, randoms) ==
    IF randoms = <<>> THEN <<>>
    ELSE LET node == uuid_getnode(cache, Head(randoms)) IN
         <<node>> \o GetNodes(<<node>>, Tail(randoms))

\* hashlib.sha256(data.encode()).hexdigest(): the digest stands for its
\* input, as a digest without collisions does.
sha256_hexdigest(data) == [sha256 |-> data]

\* gerar_hwid(), node being what its uuid.getnode() call returns.
gerar_hwid(node) ==
    LET raw == ToString(node) \o Get(machine.computername, "")
                              \o Get(machine.username, "")
    IN  sha256_hexdigest(raw)

HexDigits ==
    <<"0", "1", "2", "3", "4", "5", "6", "7",
      "8", "9", "a", "b", "c", "d", "e", "f">>

\* '{:02x}'.format(byte)
Hex02(byte) == HexDigits[(byte \div 16) + 1] \o HexDigits[(byte % 16) + 1]

\* (node >> elements) & 0xff
ShiftedByte(node, elements) == (node \div (2 ^ elements)) % 256

\* generate_hwid(), nodes[k] being what its k-th uuid.getnode() call returns:
\* the list is built for elements = 0, 2, .., 10 and then reversed.  The
\* result is the first 16 digits of the digest, in upper case.
generate_hwid(nodes) ==
    LET system_info == machine.node \o "-" \o machine.processor
                                    \o "-" \o machine.system
        byte(k) == Hex02(ShiftedByte(nodes[k], 2 * (k - 1)))
        mac_address == byte(6) \o ":" \o byte(5) \o ":" \o byte(4) \o ":"
                       \o byte(3) \o ":" \o byte(2) \o ":" \o byte(1)
        combined == system_info \o "-" \o mac_address
    IN  [sha256_16_upper |-> combined]

\* json={"hwid": hwid_atual} of the /api/hwid/save request.
hwid_save_json(hwid_atual) == [hwid |-> hwid_atual]

\* A checker that sends an empty hwid.
request_json_empty(self_hwid) == [hwid |-> [sha256_16_upper |-> ""]]

\* json={"hwid": self.hwid} of check_license_status and send_heartbeat.
request_json(self_hwid) == [hwid |-> self_hwid]

\* A request of the protocol: the operation and the bearer token it carries.
Call(op, token) == [op |-> op, token |-> token]

\* ------------------------------------------------ LoginWorker.run (thread)

\* The texts of the signals are the source's, written in ASCII and on one
\* line; the unauthorized-device text is cut after its first sentence.

\* What one stretch of run() does between two blocking calls: the signals it
\* emits, the request it sends next (none when it stops) and where it is then.
Go(pc, emits, call) == [pc |-> pc, emits |-> emits, calls |-> <<call>>]
Stop(emits) == [pc |-> "done", emits |-> emits, calls |-> <<>>]

\* The except clauses of run(): Timeout, ConnectionError, then Exception as e.
LoginWorker_except(exc) ==
    IF exc = "timeout" THEN Finished(FALSE, "Tempo limite de conexao excedido.")
    ELSE IF exc = "conn" THEN Finished(FALSE, "Erro de conexao com o servidor.")
    ELSE Finished(FALSE, "Erro de conexao: " \o exc)

\* A run() that sends the license check without waiting for the login answer.
LoginWorker_begin_pipelined ==
    [pc |-> "login",
     emits |-> <<Status("Conectando ao servidor..."), Progress(20)>>,
     calls |-> <<Call("login", <<>>), Call("check", <<>>)>>]

\* run() up to the login request.
LoginWorker_begin ==
    Go("login", <<Status("Conectando ao servidor..."), Progress(20)>>,
       Call("login", <<>>))

\* A run() whose "Credenciais invalidas" branch lacks its return.
LoginWorker_after_login_no_return(r) ==
    IF r.err # "none" THEN Stop(<<LoginWorker_except(r.err)>>)
    ELSE IF r.status # 200
    THEN Go("check", <<Finished(FALSE, "Credenciais invalidas."), Progress(50),
                       Status("Verificando licenca...")>>,
            Call("check", r.token))
    ELSE IF ~r.json
    THEN Stop(<<Progress(50), Status("Verificando licenca..."),
                LoginWorker_except("JSONDecodeError")>>)
    ELSE IF r.token = <<>>
    THEN Stop(<<Progress(50), Status("Verificando licenca..."),
                LoginWorker_except("'token'")>>)
    ELSE Go("check", <<Progress(50), Status("Verificando licenca...")>>,
            Call("check", r.token))

\* A run() that does not test the login status before going on.
LoginWorker_after_login_nostatus(r) ==
    IF r.err # "none" THEN Stop(<<LoginWorker_except(r.err)>>)
    ELSE IF ~r.json
    THEN Stop(<<Progress(50), Status("Verificando licenca..."),
                LoginWorker_except("JSONDecodeError")>>)
    ELSE IF r.token = <<>>
    THEN Stop(<<Progress(50), Status("Verificando licenca..."),
                LoginWorker_except("'token'")>>)
    ELSE Go("check", <<Progress(50), Status("Verificando licenca...")>>,
            Call("check", r.token))

\* run() from the answer of /api/auth/login to the license check request.
LoginWorker_after_login(r) ==
    IF r.err # "none" THEN Stop(<<LoginWorker_except(r.err)>>)
    ELSE IF r.status # 200 THEN Stop(<<Finished(FALSE, "Credenciais invalidas.")>>)
    ELSE IF ~r.json
    THEN Stop(<<Progress(50), Status("Verificando licenca..."),
                LoginWorker_except("JSONDecodeError")>>)
    ELSE IF r.token = <<>>
    THEN Stop(<<Progress(50), Status("Verificando licenca..."),
                LoginWorker_except("'token'")>>)
    ELSE Go("check", <<Progress(50), Status("Verificando licenca...")>>,
            Call("check", r.token))

\* A run() whose LICENSE_EXPIRED branch lacks its return.
LoginWorker_after_check_no_return(token, r2) ==
    IF r2.err # "none" THEN Stop(<<LoginWorker_except(r2.err)>>)
    ELSE IF r2.status # 200
    THEN Stop(<<Finished(FALSE, "Erro ao checar licenca. Status: "
                                    \o ToString(r2.status))>>)
    ELSE IF ~r2.json THEN Stop(<<LoginWorker_except("JSONDecodeError")>>)
    ELSE IF ~Get(r2.valid, FALSE)
    THEN Go("save", <<Finished(FALSE,
            "LICENSE_EXPIRED:Licenca expirada ou invalida. Renove para continuar."),
            Progress(80), Status("Validando hardware...")>>,
            Call("save", token))
    ELSE Go("save", <<Progress(80), Status("Validando hardware...")>>,
            Call("save", token))

\* A run() that takes a missing "valid" for a valid license.
LoginWorker_after_check_default_valid(token, r2) ==
    IF r2.err # "none" THEN Stop(<<LoginWorker_except(r2.err)>>)
    ELSE IF r2.status # 200
    THEN Stop(<<Finished(FALSE, "Erro ao checar licenca. Status: "
                                    \o ToString(r2.status))>>)
    ELSE IF ~r2.json THEN Stop(<<LoginWorker_except("JSONDecodeError")>>)
    ELSE IF ~Get(r2.valid, TRUE)
    THEN Stop(<<Finished(FALSE,
            "LICENSE_EXPIRED:Licenca expirada ou invalida. Renove para continuar.")>>)
    ELSE Go("save", <<Progress(80), Status("Validando hardware...")>>,
            Call("save", token))

\* A run() that sends the license check again when it times out.
LoginWorker_after_check_retry(token, r2) ==
    IF r2.err = "timeout" THEN Go("check", <<>>, Call("check", token))
    ELSE IF r2.err # "none" THEN Stop(<<LoginWorker_except(r2.err)>>)
    ELSE IF r2.status # 200
    THEN Stop(<<Finished(FALSE, "Erro ao checar licenca. Status: "
                                    \o ToString(r2.status))>>)
    ELSE IF ~r2.json THEN Stop(<<LoginWorker_except("JSONDecodeError")>>)
    ELSE IF ~Get(r2.valid, FALSE)
    THEN Stop(<<Finished(FALSE,
            "LICENSE_EXPIRED:Licenca expirada ou invalida. Renove para continuar.")>>)
    ELSE Go("save", <<Progress(80), Status("Validando hardware...")>>,
            Call("save", token))

\* A run() that reports progress 80 before it tests the license.
LoginWorker_after_check_progress_first(token, r2) ==
    IF r2.err # "none" THEN Stop(<<LoginWorker_except(r2.err)>>)
    ELSE IF r2.status # 200
    THEN Stop(<<Finished(FALSE, "Erro ao checar licenca. Status: "
                                    \o ToString(r2.status))>>)
    ELSE IF ~r2.json THEN Stop(<<LoginWorker_except("JSONDecodeError")>>)
    ELSE IF ~Get(r2.valid, FALSE)
    THEN Stop(<<Progress(80), Finished(FALSE,
            "LICENSE_EXPIRED:Licenca expirada ou invalida. Renove para continuar.")>>)
    ELSE Go("save", <<Progress(80), Status("Validando hardware...")>>,
            Call("save", token))

\* run() from the answer of /api/license/check to the hwid save request.
\* token is the local of run() read from the login answer.
LoginWorker_after_check(token, r2) ==
    IF r2.err # "none" THEN Stop(<<LoginWorker_except(r2.err)>>)
    ELSE IF r2.status # 200
    THEN Stop(<<Finished(FALSE, "Erro ao checar licenca. Status: "
                                    \o ToString(r2.status))>>)
    ELSE IF ~r2.json THEN Stop(<<LoginWorker_except("JSONDecodeError")>>)
    ELSE IF ~Get(r2.valid, FALSE)
    THEN Stop(<<Finished(FALSE,
            "LICENSE_EXPIRED:Licenca expirada ou invalida. Renove para continuar.")>>)
    ELSE Go("save", <<Progress(80), Status("Validando hardware...")>>,
            Call("save", token))

\* A run() that never reads days_remaining.
FormatDias_unknown(dados_licenca) == "??"

\* dados_licenca.get("days_remaining", "??") as the f-string renders it.
FormatDias(dados_licenca) ==
    IF dados_licenca.days = <<>> THEN "??" ELSE ToString(dados_licenca.days[1])

\* A run() that reports progress 100 before it tests the save status.
LoginWorker_after_save_early_100(dados_licenca, res_hwid) ==
    IF res_hwid.err # "none" THEN Stop(<<LoginWorker_except(res_hwid.err)>>)
    ELSE IF res_hwid.status # 200
    THEN Stop(<<Progress(100), Finished(FALSE, "Acesso Nao Autorizado.")>>)
    ELSE Stop(<<Progress(100),
                Finished(TRUE, "Licenca ativa! Dias restantes: "
                                   \o FormatDias(dados_licenca))>>)

\* A run() that reports a rejected hwid save with the text of a rejected login.
LoginWorker_after_save_as_credentials(dados_licenca, res_hwid) ==
    IF res_hwid.err # "none" THEN Stop(<<LoginWorker_except(res_hwid.err)>>)
    ELSE IF res_hwid.status # 200
    THEN Stop(<<Finished(FALSE, "Credenciais invalidas.")>>)
    ELSE Stop(<<Progress(100),
                Finished(TRUE, "Licenca ativa! Dias restantes: "
                                   \o FormatDias(dados_licenca))>>)

\* run() from the answer of /api/hwid/save to its end.
\* dados_licenca is the local of run() read from the check answer.
LoginWorker_after_save(dados_licenca, res_hwid) ==
    IF res_hwid.err # "none" THEN Stop(<<LoginWorker_except(res_hwid.err)>>)
    ELSE IF res_hwid.status # 200
    THEN Stop(<<Finished(FALSE, "Acesso Nao Autorizado.")>>)
    ELSE Stop(<<Progress(100),
                Finished(TRUE, "Licenca ativa! Dias restantes: "
                                   \o FormatDias(dados_licenca))>>)

\* Whether the signals emits hold a finished(True, ...).
Finished_ok(emits) ==
    \E k \in DOMAIN emits : emits[k].sig = "finished" /\ emits[k].ok

\* A signal emitted by a worker thread is queued for the window's thread.
Queued(src, emits) == [k \in 1..Len(emits) |-> [src |-> src, ev |-> emits[k]]]

\* Worker i of ws takes the stretch `step`, having received the answers rs.
Advance(ws, i, step, rs) ==
    [ws EXCEPT ![i] = [pc |-> step.pc,
                       calls |-> @.calls \o step.calls,
                       resps |-> @.resps \o rs,
                       events |-> @.events \o step.emits,
                       hwid_atual |-> @.hwid_atual,
                       save_json |-> @.save_json]]

LoginWorker_run_begin(i) ==
    /\ lws[i].pc = "started"
    /\ lws' = Advance(lws, i, LoginWorker_begin, <<>>)
    /\ ui_queue' = ui_queue \o Queued("login", LoginWorker_begin.emits)
    /\ UNCHANGED <<example, host, logged_in, ui_widgets, ui_pc, dialog, ews>>

LoginWorker_run_login(i) ==
    /\ lws[i].pc = "login"
    /\ \E r \in AuthResponses :
        LET step == LoginWorker_after_login(r) IN
        /\ ui_queue' = ui_queue \o Queued("login", step.emits)
        /\ IF step.pc = "check"
           THEN \E random \in RandomNodes :
                 LET node == uuid_getnode(uuid_node, random) IN
                 /\ uuid_node' = <<node>>
                 /\ lws' = [Advance(lws, i, step, <<r>>)
                               EXCEPT ![i].hwid_atual = <<gerar_hwid(node)>>]
           ELSE /\ lws' = Advance(lws, i, step, <<r>>)
                /\ UNCHANGED uuid_node
    /\ UNCHANGED <<example, machine, logged_in, ui_widgets, ui_pc, dialog, ews>>

LoginWorker_run_check(i) ==
    /\ lws[i].pc = "check"
    /\ \E r2 \in CheckResponses :
        LET step == LoginWorker_after_check(lws[i].resps[1].token, r2) IN
        /\ lws' = IF step.pc = "save"
                  THEN [Advance(lws, i, step, <<r2>>)
                           EXCEPT ![i].save_json = <<hwid_save_json(lws[i].hwid_atual[1])>>]
                  ELSE Advance(lws, i, step, <<r2>>)
        /\ ui_queue' = ui_queue \o Queued("login", step.emits)
    /\ UNCHANGED <<example, host, logged_in, ui_widgets, ui_pc, dialog, ews>>

LoginWorker_run_save(i) ==
    /\ lws[i].pc = "save"
    /\ \E res_hwid \in BindResponses :
        LET step == LoginWorker_after_save(lws[i].resps[2], res_hwid) IN
        /\ lws' = Advance(lws, i, step, <<res_hwid>>)
        /\ ui_queue' = ui_queue \o Queued("login", step.emits)
        /\ logged_in' = (logged_in \/ Finished_ok(step.emits))
    /\ UNCHANGED <<example, host, ui_widgets, ui_pc, dialog, ews>>

\* ---------------------------------------------- ExecuteWorker.run (thread)

\* The payload download answers: an exception of requests.get, or a status.
DownloadResponses ==
    {ErrResp(e) : e \in TransportErrors}
    \cup {Resp("none", s, FALSE, <<>>, <<>>, <<>>, <<>>) : s \in {200, 404}}

\* The single except clause of run().
ExecuteWorker_except(exc) == Finished(FALSE, "Erro ao executar: " \o exc)

\* A stretch of run() that sends no protocol request.
Step(pc, emits) == [pc |-> pc, emits |-> emits, calls |-> <<>>]

\* run() up to the download, or up to the AutoHotkey installation.
\* dep is what verificar_autohotkey_instalado() does: True, False or raise.
ExecuteWorker_begin(dep) ==
    IF dep = "raises"
    THEN Stop(<<Status("Verificando dependencias..."), Progress(25),
                ExecuteWorker_except("OSError")>>)
    ELSE IF dep = "missing"
    THEN Step("install", <<Status("Verificando dependencias..."), Progress(25),
                           Status("Instalando AutoHotkey...")>>)
    ELSE Step("download", <<Status("Verificando dependencias..."), Progress(25),
                            Progress(50), Status("Baixando executavel...")>>)

\* run() from the return of instalar_autohotkey_silencioso() to the download.
ExecuteWorker_after_install(installed) ==
    IF ~installed
    THEN Stop(<<Finished(FALSE, "Falha na instalacao do AutoHotkey.")>>)
    ELSE Step("download", <<Progress(50), Status("Baixando executavel...")>>)

\* run() from the answer of the download to writing and launching the file.
ExecuteWorker_after_download(res) ==
    IF res.err # "none" THEN Stop(<<ExecuteWorker_except(res.err)>>)
    ELSE IF res.status # 200
    THEN Stop(<<Finished(FALSE, "Falha ao baixar o executavel.")>>)
    ELSE Step("launch", <<Progress(75), Status("Executando script...")>>)

\* run() from writing the file to its end; launched is FALSE when makedirs,
\* open, write, attrib or Popen raises.
ExecuteWorker_after_launch(launched) ==
    IF ~launched THEN Stop(<<ExecuteWorker_except("OSError")>>)
    ELSE Stop(<<Progress(100),
                Finished(TRUE, "Script executado com sucesso! O sistema esta ativo.")>>)

ExecuteWorker_run_begin(i) ==
    /\ ews[i].pc = "started"
    /\ \E dep \in {"installed", "missing", "raises"} :
        LET step == ExecuteWorker_begin(dep) IN
        /\ ews' = Advance(ews, i, step, <<>>)
        /\ ui_queue' = ui_queue \o Queued("execute", step.emits)
    /\ UNCHANGED <<example, host, logged_in, ui_widgets, ui_pc, dialog, lws>>

ExecuteWorker_run_install(i) ==
    /\ ews[i].pc = "install"
    /\ \E installed \in BOOLEAN :
        LET step == ExecuteWorker_after_install(installed) IN
        /\ ews' = Advance(ews, i, step, <<>>)
        /\ ui_queue' = ui_queue \o Queued("execute", step.emits)
    /\ UNCHANGED <<example, host, logged_in, ui_widgets, ui_pc, dialog, lws>>

ExecuteWorker_run_download(i) ==
    /\ ews[i].pc = "download"
    /\ \E res \in DownloadResponses :
        LET step == ExecuteWorker_after_download(res) IN
        /\ ews' = Advance(ews, i, step, <<res>>)
        /\ ui_queue' = ui_queue \o Queued("execute", step.emits)
    /\ UNCHANGED <<example, host, logged_in, ui_widgets, ui_pc, dialog, lws>>

ExecuteWorker_run_launch(i) ==
    /\ ews[i].pc = "launch"
    /\ \E launched \in BOOLEAN :
        LET step == ExecuteWorker_after_launch(launched) IN
        /\ ews' = Advance(ews, i, step, <<>>)
        /\ ui_queue' = ui_queue \o Queued("execute", step.emits)
    /\ UNCHANGED <<example, host, logged_in, ui_widgets, ui_pc, dialog, lws>>

\* ------------------------------------------- FovDarkLoader (window thread)

\* show_message: a CustomMessageBox run with exec(), modal to the window.
Message(title, message, msg_type) ==
    <<[title |-> title, message |-> message, msg_type |-> msg_type]>>

\* A set_ui_enabled that leaves the login button alone.
set_ui_enabled_without_login(enabled) ==
    /\ entries_enabled' = enabled
    /\ btn_login_enabled' = btn_login_enabled
    /\ btn_executar_enabled' = enabled

set_ui_enabled(enabled) ==
    /\ entries_enabled' = enabled
    /\ btn_login_enabled' = enabled
    /\ btn_executar_enabled' = enabled

\* login(); filled is "email and senha are both non-empty after strip()".
\* Saving the credentials (salvar_login_local) changes nothing the window or
\* a worker reads again.  The new thread replaces the window's reference to
\* the one before; a thread that has not ended keeps running.
login(filled) ==
    IF ~filled
    THEN /\ dialog' = Message("Erro", "Preencha email e senha!", "info")
         /\ ui_pc' = "login"
         /\ UNCHANGED <<example, host, logged_in, ui_widgets, ui_queue, lws, ews>>
    ELSE /\ set_ui_enabled(FALSE)
         /\ lws' = Append(RunningOnes(lws), NewWorker)
         /\ UNCHANGED <<example, host, logged_in, btn_executar_visible, ui_pc, dialog, ui_queue, ews>>

\* btn_login.clicked: a click reaches an enabled button of an unblocked window.
btn_login_clicked ==
    /\ program = "loader"
    /\ ui_pc = "idle"
    /\ btn_login_enabled
    /\ \E filled \in BOOLEAN : login(filled)

\* entry_senha.returnPressed: Enter reaches an enabled field.
entry_senha_returnPressed ==
    /\ program = "loader"
    /\ ui_pc = "idle"
    /\ entries_enabled
    /\ \E filled \in BOOLEAN : login(filled)

executar_script ==
    /\ set_ui_enabled(FALSE)
    /\ ews' = Append(RunningOnes(ews), NewWorker)
    /\ UNCHANGED <<example, host, logged_in, btn_executar_visible, ui_pc, dialog, ui_queue, lws>>

\* btn_executar.clicked: the button must be shown and enabled.
btn_executar_clicked ==
    /\ program = "loader"
    /\ ui_pc = "idle"
    /\ btn_executar_visible
    /\ btn_executar_enabled
    /\ executar_script

\* "LICENSE_EXPIRED:" in message, and message.replace("LICENSE_EXPIRED:", "").
\* Of the texts a worker emits, one carries the marker, as its prefix.
HasMarker(message) ==
    message = "LICENSE_EXPIRED:Licenca expirada ou invalida. Renove para continuar."

CleanMessage(message) ==
    IF HasMarker(message)
    THEN "Licenca expirada ou invalida. Renove para continuar."
    ELSE message

\* login_finished up to the message box it opens.
login_finished(success, message) ==
    /\ set_ui_enabled(TRUE)
    /\ IF success
       THEN /\ dialog' = Message("Sucesso", message, "info")
            /\ ui_pc' = "login_finished_success"
       ELSE /\ ui_pc' = "login_finished_failure"
            /\ dialog' = IF HasMarker(message)
                         THEN Message("Licenca Expirada", CleanMessage(message), "warning")
                         ELSE Message("Erro", message, "error")
    /\ UNCHANGED <<example, host, logged_in, btn_executar_visible, lws, ews>>

\* execute_finished up to the message box it opens.
execute_finished(success, message) ==
    /\ set_ui_enabled(TRUE)
    /\ ui_pc' = "execute_finished"
    /\ dialog' = IF success THEN Message("Sucesso", message, "info")
                            ELSE Message("Erro", message, "error")
    /\ UNCHANGED <<example, host, logged_in, btn_executar_visible, lws, ews>>

\* The event loop delivers the oldest queued signal to the slot connected to
\* it: progress_bar.setValue, status_label.setText, login_finished or
\* execute_finished.
\* A message box blocks the clicks and keys of the window; no signal is
\* pending while one is open (QueueEmptyInDialog).
Deliver ==
    /\ program = "loader"
    /\ ui_pc = "idle"
    /\ ui_queue # <<>>
    /\ ui_queue' = Tail(ui_queue)
    /\ LET s == Head(ui_queue) IN
       IF s.ev.sig # "finished"
       THEN UNCHANGED <<example, host, logged_in, ui_widgets, ui_pc, dialog, lws, ews>>
       ELSE IF s.src = "login"
       THEN login_finished(s.ev.ok, s.ev.text)
       ELSE execute_finished(s.ev.ok, s.ev.text)

\* A window that shows the EXECUTAR SCRIPT button after any message box.
CloseDialog_shows_executar ==
    /\ program = "loader"
    /\ ui_pc # "idle"
    /\ dialog' = <<>>
    /\ ui_pc' = "idle"
    /\ btn_executar_visible' = TRUE
    /\ btn_login_enabled' = IF ui_pc = "login_finished_success" THEN FALSE
                            ELSE btn_login_enabled
    /\ UNCHANGED <<example, host, logged_in, entries_enabled, btn_executar_enabled>>
    /\ UNCHANGED <<example, host, logged_in, ui_queue, lws, ews>>

\* The message box is closed and the handler that opened it runs to its end:
\* after the success box login_finished shows the EXECUTAR SCRIPT button and
\* disables the login button.
CloseDialog ==
    /\ program = "loader"
    /\ ui_pc # "idle"
    /\ dialog' = <<>>
    /\ ui_pc' = "idle"
    /\ IF ui_pc = "login_finished_success"
       THEN /\ btn_executar_visible' = TRUE
            /\ btn_login_enabled' = FALSE
            /\ UNCHANGED <<example, host, logged_in, entries_enabled, btn_executar_enabled>>
       ELSE UNCHANGED ui_widgets
    /\ UNCHANGED <<example, host, logged_in, ui_queue, lws, ews>>

\* ----------------------------------- FovDarkLicenseChecker (loader-example)

\* Answers to /api/loader/license-status and /api/loader/heartbeat: an
\* exception of requests.post (a RequestException), or a status with a JSON
\* body {valid, timeRemaining: {totalMinutes}} whose fields may be missing.
Totals == {<<>>, <<-1>>, <<0>>} \cup {<<n>> : n \in 1..MaxMinutes}

LicenseResponses ==
    {ErrResp(e) : e \in TransportErrors}
    \cup {Resp("none", s, TRUE, <<>>, v, <<>>, t) :
            s \in {200, 500}, v \in OptBool, t \in Totals}

\* A service that keeps the minutes of the license: it starts with at least
\* one minute, takes one off at every heartbeat ("decrementa 1 minuto da
\* licenca") and reports what is left.  With none left it may still say
\* valid or not.
MeteredBalances == {<<n>> : n \in 1..MaxMinutes}

MeteredAnswers(minutes) ==
    {Resp("none", 200, TRUE, <<>>, <<v>>, <<>>, <<minutes>>) :
        v \in IF minutes > 0 THEN {TRUE} ELSE BOOLEAN}

\* The answers the initial check and a heartbeat can get.
license_status_answers(bal) ==
    IF bal = <<>> THEN LicenseResponses ELSE MeteredAnswers(bal[1])

heartbeat_answers(bal) ==
    IF bal = <<>> THEN LicenseResponses ELSE MeteredAnswers(bal[1] - 1)

\* The dict both request methods return.
Dict(valid, total, message) == [valid |-> valid, total |-> total, message |-> message]

\* A check_license_status that returns the body without testing the status.
check_license_status_any_status(response) ==
    IF response.err # "none"
    THEN Dict(<<FALSE>>, <<>>, <<"Erro de conexao: " \o response.err>>)
    ELSE Dict(response.valid, response.total, <<>>)

check_license_status(response) ==
    IF response.err # "none"
    THEN Dict(<<FALSE>>, <<>>, <<"Erro de conexao: " \o response.err>>)
    ELSE IF response.status = 200
    THEN Dict(response.valid, response.total, <<>>)
    ELSE Dict(<<FALSE>>, <<>>, <<"Erro HTTP " \o ToString(response.status)>>)

\* A send_heartbeat that returns the body without testing the status.
send_heartbeat_any_status(response) ==
    IF response.err # "none"
    THEN Dict(<<FALSE>>, <<>>, <<"Erro de conexao: " \o response.err>>)
    ELSE Dict(response.valid, response.total, <<>>)

send_heartbeat(response) ==
    IF response.err # "none"
    THEN Dict(<<FALSE>>, <<>>, <<"Erro de conexao: " \o response.err>>)
    ELSE IF response.status = 200
    THEN Dict(response.valid, response.total, <<>>)
    ELSE Dict(<<FALSE>>, <<>>, <<"Erro HTTP " \o ToString(response.status)>>)

\* A line start_license_monitoring prints: its fixed text, and the
\* timeRemaining it renders as days, hours and minutes (<<>> when the line
\* shows none), given by its totalMinutes.
Line(text, remaining) == [text |-> text, remaining |-> remaining]

\* What start_license_monitoring prints on the result of the initial check.
lines_after_initial_check(st) ==
    IF ~Get(st.valid, FALSE) THEN <<Line("[ERRO] message", <<>>)>>
    ELSE <<Line("[OK] Licenca valida - Plano", <<>>),
           Line("[OK] Tempo restante", <<Get(st.total, 0)>>)>>

\* A loop body that tests totalMinutes before it prints the remaining time.
lines_after_heartbeat_test_first(hb) ==
    IF ~Get(hb.valid, FALSE)
    THEN <<Line("[ERRO] Licenca expirada ou invalida: message", <<>>)>>
    ELSE IF Get(hb.total, 0) <= 0
    THEN <<Line("[ERRO] Licenca expirada!", <<>>)>>
    ELSE <<Line("[HEARTBEAT] Tempo restante", <<Get(hb.total, 0)>>)>>

\* What the loop body prints on the result of a heartbeat: the remaining
\* time is printed before totalMinutes is tested.
lines_after_heartbeat(hb) ==
    IF ~Get(hb.valid, FALSE)
    THEN <<Line("[ERRO] Licenca expirada ou invalida: message", <<>>)>>
    ELSE <<Line("[HEARTBEAT] Tempo restante", <<Get(hb.total, 0)>>)>>
         \o (IF Get(hb.total, 0) <= 0
             THEN <<Line("[ERRO] Licenca expirada!", <<>>)>>
             ELSE <<>>)

\* A start_license_monitoring whose return statements give True.
start_license_monitoring_return_true(next_pc) ==
    IF next_pc = "returned" THEN <<TRUE>> ELSE <<>>

\* What start_license_monitoring has returned once it is at next_pc: each of
\* its return statements is `return False`; in the loop it has not returned.
start_license_monitoring_return(next_pc) ==
    IF next_pc = "returned" THEN <<FALSE>> ELSE <<>>

\* An initial check that takes a missing "valid" for a valid license.
after_initial_check_default_valid(st) ==
    IF ~Get(st.valid, TRUE) THEN "returned" ELSE "sleep"

\* start_license_monitoring after the initial check: return False, or go on
\* to the heartbeat loop and its first sleep.
after_initial_check(st) ==
    IF ~Get(st.valid, FALSE) THEN "returned" ELSE "sleep"

\* A loop that stops only below 0 minutes.
after_heartbeat_below_zero(hb) ==
    IF ~Get(hb.valid, FALSE) THEN "returned"
    ELSE IF Get(hb.total, 0) < 0 THEN "returned"
    ELSE "sleep"

\* A loop that counts the minutes down itself, from the balance the initial
\* check reported, one per heartbeat sent.
after_heartbeat_countdown(hb) ==
    IF ~Get(hb.valid, FALSE) THEN "returned"
    ELSE IF Get(status[1].total, 0) - (Len(mon_calls) - 1) <= 0 THEN "returned"
    ELSE "sleep"

\* The body of the while loop after send_heartbeat: return False, or loop.
after_heartbeat(hb) ==
    IF ~Get(hb.valid, FALSE) THEN "returned"
    ELSE IF Get(hb.total, 0) <= 0 THEN "returned"
    ELSE "sleep"

\* The seconds of time.sleep(60).
HeartbeatInterval == 60

\* A step of start_license_monitoring: a request sent ("license-status",
\* "heartbeat"), the evaluation of a result ("evaluate") or a completed
\* time.sleep ("sleep", with its seconds).
TraceStep(step, seconds) == [step |-> step, seconds |-> seconds]

\* A loop body that sends the heartbeat first and sleeps at its end.
loop_until_request_sleep_last == <<TraceStep("heartbeat", 0)>>

\* The loop body up to the request of send_heartbeat: time.sleep(60), then
\* the POST.
loop_until_request ==
    <<TraceStep("sleep", HeartbeatInterval), TraceStep("heartbeat", 0)>>

\* main() builds the checker and start_license_monitoring sends the initial
\* license-status request.
main_start ==
    /\ program = "example"
    /\ mon_pc = "main"
    /\ mon_pc' = "license_status"
    /\ mon_calls' = Append(mon_calls, "license-status")
    /\ \E randoms \in [1..6 -> RandomNodes] :
        LET nodes == GetNodes(uuid_node, randoms) IN
        /\ uuid_node' = <<nodes[6]>>
        /\ hwid' = <<generate_hwid(nodes)>>
        /\ mon_bodies' = Append(mon_bodies, request_json(generate_hwid(nodes)))
    /\ printed' = printed \o <<Line("[FOVDARK] Iniciando verificacao de licenca...", <<>>),
                               Line("[FOVDARK] HWID", <<>>)>>
    /\ mon_trace' = Append(mon_trace, TraceStep("license-status", 0))
    /\ UNCHANGED <<loader, machine, balance, stop_at, program, mon_resps, status,
                   heartbeat, mon_ret, main_out>>

\* The initial check is answered.
monitoring_initial_check ==
    /\ mon_pc = "license_status"
    /\ \E response \in license_status_answers(balance) :
        LET st == check_license_status(response) IN
        /\ mon_resps' = Append(mon_resps, response)
        /\ status' = <<st>>
        /\ mon_pc' = after_initial_check(st)
        /\ mon_ret' = start_license_monitoring_return(after_initial_check(st))
        /\ printed' = printed \o lines_after_initial_check(st)
    /\ mon_trace' = Append(mon_trace, TraceStep("evaluate", 0))
    /\ UNCHANGED <<loader, host, hwid, balance, stop_at, program, mon_calls, mon_bodies,
                   heartbeat, main_out>>

\* time.sleep(60) ends and send_heartbeat sends its request.
monitoring_sleep ==
    /\ mon_pc = "sleep"
    /\ Len(mon_calls) <= MaxHeartbeats
    /\ mon_pc' = "heartbeat"
    /\ mon_calls' = Append(mon_calls, "heartbeat")
    /\ mon_trace' = mon_trace \o loop_until_request
    /\ mon_bodies' = Append(mon_bodies, request_json(hwid[1]))
    /\ UNCHANGED <<loader, host, hwid, printed, balance, stop_at, program, mon_resps,
                   status, heartbeat, mon_ret, main_out>>

\* The heartbeat is answered and the loop body evaluates it.
monitoring_heartbeat ==
    /\ mon_pc = "heartbeat"
    /\ \E response \in heartbeat_answers(balance) :
        LET hb == send_heartbeat(response) IN
        /\ mon_resps' = Append(mon_resps, response)
        /\ heartbeat' = <<hb>>
        /\ mon_pc' = after_heartbeat(hb)
        /\ mon_ret' = start_license_monitoring_return(after_heartbeat(hb))
        /\ printed' = printed \o lines_after_heartbeat(hb)
    /\ mon_trace' = Append(mon_trace, TraceStep("evaluate", 0))
    /\ balance' = IF balance = <<>> THEN <<>> ELSE <<balance[1] - 1>>
    /\ UNCHANGED <<loader, host, hwid, stop_at, program, mon_calls, mon_bodies, status,
                   main_out>>

\* main() after start_license_monitoring has returned.
main_end ==
    /\ mon_pc = "returned"
    /\ mon_pc' = "exit"
    /\ main_out' = IF mon_ret[1] THEN <<"Iniciando cheat...">>
                   ELSE <<"Nao e possivel iniciar - licenca invalida">>
    /\ UNCHANGED <<loader, host, hwid, printed, mon_trace, balance, stop_at, program,
                   mon_calls, mon_bodies, mon_resps, status, heartbeat, mon_ret>>

\* Whoever runs the script asks the monitor to stop while it is monitoring.
\* start_license_monitoring has no parameter, flag or handler through which
\* the request could reach it: no statement of the loop reads it.
raise_stop ==
    /\ mon_pc \in {"sleep", "heartbeat"}
    /\ stop_at = <<>>
    /\ stop_at' = <<Len(mon_calls)>>
    /\ UNCHANGED <<loader, host, hwid, printed, mon_trace, balance, program, mon_pc,
                   mon_calls, mon_bodies, mon_resps, status, heartbeat, mon_ret,
                   main_out>>

\* Whenever a message box is open every queued signal has been delivered.
QueueEmptyInDialog == ui_pc # "idle" => ui_queue = <<>> /\ dialog # <<>>

\* ----------------------------------------------------------- specification

Init ==
    /\ entries_enabled = TRUE
    /\ btn_login_enabled = TRUE
    /\ btn_executar_enabled = TRUE
    /\ btn_executar_visible = FALSE
    /\ ui_pc = "idle"
    /\ dialog = <<>>
    /\ ui_queue = <<>>
    /\ lws = <<>>
    /\ ews = <<>>
    /\ logged_in = FALSE
    /\ program \in {"loader", "example"}
    /\ mon_pc = "main"
    /\ mon_calls = <<>>
    /\ mon_resps = <<>>
    /\ status = <<>>
    /\ heartbeat = <<>>
    /\ mon_ret = <<>>
    /\ main_out = <<>>
    /\ stop_at = <<>>
    /\ machine \in Machines
    /\ uuid_node = <<>>
    /\ hwid = <<>>
    /\ printed = <<>>
    /\ mon_trace = <<>>
    /\ mon_bodies = <<>>
    /\ balance \in IF program = "example" THEN {<<>>} \cup MeteredBalances ELSE {<<>>}

Next ==
    \/ btn_login_clicked
    \/ entry_senha_returnPressed
    \/ btn_executar_clicked
    \/ Deliver
    \/ CloseDialog
    \/ \E i \in DOMAIN lws : LoginWorker_run_begin(i)
    \/ \E i \in DOMAIN lws : LoginWorker_run_login(i)
    \/ \E i \in DOMAIN lws : LoginWorker_run_check(i)
    \/ \E i \in DOMAIN lws : LoginWorker_run_save(i)
    \/ \E i \in DOMAIN ews : ExecuteWorker_run_begin(i)
    \/ \E i \in DOMAIN ews : ExecuteWorker_run_install(i)
    \/ \E i \in DOMAIN ews : ExecuteWorker_run_download(i)
    \/ \E i \in DOMAIN ews : ExecuteWorker_run_launch(i)
    \/ main_start
    \/ monitoring_initial_check
    \/ monitoring_sleep
    \/ monitoring_heartbeat
    \/ main_end
    \/ raise_stop

Spec == Init /\ [][Next]_vars

\* What runs without the user: the worker threads (every request has a
\* timeout, so every call returns), the event loop delivering queued signals,
\* and the license checker's script (its sleep ends, its requests time out).
\* Clicks, keys and the closing of a message box are the user's to give.
Fairness ==
    /\ WF_vars(Deliver)
    /\ WF_vars(\E i \in DOMAIN lws : LoginWorker_run_begin(i))
    /\ WF_vars(\E i \in DOMAIN lws : LoginWorker_run_login(i))
    /\ WF_vars(\E i \in DOMAIN lws : LoginWorker_run_check(i))
    /\ WF_vars(\E i \in DOMAIN lws : LoginWorker_run_save(i))
    /\ WF_vars(\E i \in DOMAIN ews : ExecuteWorker_run_begin(i))
    /\ WF_vars(\E i \in DOMAIN ews : ExecuteWorker_run_install(i))
    /\ WF_vars(\E i \in DOMAIN ews : ExecuteWorker_run_download(i))
    /\ WF_vars(\E i \in DOMAIN ews : ExecuteWorker_run_launch(i))
    /\ WF_vars(main_start)
    /\ WF_vars(monitoring_initial_check)
    /\ WF_vars(monitoring_sleep)
    /\ WF_vars(monitoring_heartbeat)
    /\ WF_vars(main_end)

FairSpec == Spec /\ Fairness

\* ------------------------------------------------------ claim vocabulary

\* The operations worker w has requested, in order.
Ops(w) == [k \in 1..Len(w.calls) |-> w.calls[k].op]

\* The call failed: an exception of the request, or a status other than 200.
Failed(r) == r.err # "none" \/ r.status # 200

HasFinished(w) == \E k \in DOMAIN w.events : w.events[k].sig = "finished"

EmitsSuccess(w) ==
    \E k \in DOMAIN w.events : w.events[k].sig = "finished" /\ w.events[k].ok

EmitsProgress(w, n) ==
    \E k \in DOMAIN w.events : w.events[k].sig = "progress" /\ w.events[k].n = n

LastEvent(w) == w.events[Len(w.events)]

\* The outcome texts of LoginWorker.run, as the window receives them.
MsgUnauthorized == "Acesso Nao Autorizado."
MsgLicenseExpired ==
    "LICENSE_EXPIRED:Licenca expirada ou invalida. Renove para continuar."
MsgTimeout == "Tempo limite de conexao excedido."
MsgConnection == "Erro de conexao com o servidor."

\* ------------------------------------------------------------------ C1

\* C1: in a LoginWorker run whose login request failed (exception or status
\* other than 200) the only request ever sent is the login request: no license
\* check and no hwid save follows, and the loader sends no heartbeat at all.
C1_FailedAuthStopsCalls ==
    /\ \A i \in DOMAIN lws :
          (Len(lws[i].resps) >= 1 /\ Failed(lws[i].resps[1]))
              => /\ Ops(lws[i]) = <<"login">>
                 /\ lws[i].pc = "done"
    /\ program = "loader" => mon_calls = <<>>

\* A run has ended on a 401 answer to the login request, and the window has
\* already handled its outcome.
C1_Witness ==
    \E i \in DOMAIN lws :
        /\ lws[i].pc = "done"
        /\ lws[i].resps[1].err = "none"
        /\ lws[i].resps[1].status = 401
        /\ lws[i].resps[1].token # <<>>
        /\ ui_queue = <<>>
        /\ ui_pc = "idle"

\* ------------------------------------------------------------------ C2

\* The loop's reading of a heartbeat dict: a missing "valid" counts as false
\* and a missing totalMinutes as 0, the defaults of the two get() calls.
Expiring(hb) ==
    \/ hb.valid = <<>>
    \/ hb.valid = <<FALSE>>
    \/ hb.total = <<>>
    \/ hb.total[1] <= 0

MonitoringOver == mon_pc \in {"returned", "exit"}

\* C2: once a heartbeat has been answered, the loop has ended (with False) if
\* and only if the most recent heartbeat result has valid false or
\* totalMinutes <= 0; after a result with valid true and totalMinutes > 0 it
\* is still monitoring, whatever came before.  For a 200 answer the result is
\* the body the service sent.
C2_ExpiredIffLastHeartbeat ==
    heartbeat # <<>> =>
        LET r == mon_resps[Len(mon_resps)] IN
        /\ MonitoringOver <=> Expiring(heartbeat[1])
        /\ MonitoringOver => mon_ret = <<FALSE>>
        /\ ~MonitoringOver => mon_ret = <<>>
        /\ (mon_pc # "heartbeat" /\ r.err = "none" /\ r.status = 200)
              => heartbeat[1].valid = r.valid /\ heartbeat[1].total = r.total

\* After two heartbeats that kept monitoring, one reports valid true with
\* totalMinutes 0 and the loop has returned.
C2_Witness ==
    /\ Len(mon_resps) = 4
    /\ mon_pc = "returned"
    /\ mon_resps[4].status = 200
    /\ mon_resps[4].valid = <<TRUE>>
    /\ mon_resps[4].total = <<0>>

\* ------------------------------------------------------------------ C3

BindFailed(w) == Len(w.resps) = 3 /\ Failed(w.resps[3])

\* C3 as stated: whenever the hwid save request fails, the run ends with the
\* unauthorized-device outcome, without success and without progress 100.
C3_Original ==
    \A i \in DOMAIN lws :
        BindFailed(lws[i])
            => /\ lws[i].pc = "done"
               /\ LastEvent(lws[i]) = Finished(FALSE, MsgUnauthorized)
               /\ ~EmitsSuccess(lws[i])
               /\ ~EmitsProgress(lws[i], 100)

\* C3 amended: a failed hwid save ends the run without success and without
\* progress 100; the outcome is the unauthorized-device one when the service
\* answered with a status other than 200, and the outcome of the matching
\* except clause when the request raised.
C3_BindFailureEndsFailed ==
    \A i \in DOMAIN lws :
        BindFailed(lws[i])
            => LET r == lws[i].resps[3] IN
               /\ lws[i].pc = "done"
               /\ ~EmitsSuccess(lws[i])
               /\ ~EmitsProgress(lws[i], 100)
               /\ LastEvent(lws[i]).sig = "finished"
               /\ LastEvent(lws[i]).text =
                     (IF r.err = "none" THEN MsgUnauthorized
                      ELSE IF r.err = "timeout" THEN MsgTimeout
                      ELSE IF r.err = "conn" THEN MsgConnection
                      ELSE "Erro de conexao: " \o r.err)

\* The service rejected the hwid with 403 and the window shows the error.
C3_Witness ==
    \E i \in DOMAIN lws :
        /\ BindFailed(lws[i])
        /\ lws[i].resps[3].status = 403
        /\ ui_pc = "login_finished_failure"
        /\ dialog[1].message = MsgUnauthorized

\* ------------------------------------------------------------------ C4

\* C4: when the license check is answered 200 with valid false or missing,
\* the run ends with the LICENSE_EXPIRED outcome and the hwid save request is
\* never sent.
C4_InvalidLicenseStopsBeforeBind ==
    \A i \in DOMAIN lws :
        (/\ Len(lws[i].resps) >= 2
         /\ lws[i].resps[2].err = "none"
         /\ lws[i].resps[2].status = 200
         /\ lws[i].resps[2].json
         /\ lws[i].resps[2].valid \in {<<>>, <<FALSE>>})
            => /\ lws[i].pc = "done"
               /\ LastEvent(lws[i]) = Finished(FALSE, MsgLicenseExpired)
               /\ Ops(lws[i]) = <<"login", "check">>
               /\ Len(lws[i].resps) = 2

\* A check answered 200 without a "valid" field has ended the run.
C4_Witness ==
    \E i \in DOMAIN lws :
        /\ Len(lws[i].resps) = 2
        /\ lws[i].resps[2].status = 200
        /\ lws[i].resps[2].json
        /\ lws[i].resps[2].valid = <<>>
        /\ lws[i].pc = "done"

\* ------------------------------------------------------------------ C5

\* C5: a heartbeat that raised or was answered with a status other than 200
\* is the last request of the run: its result has valid false, the loop has
\* returned False, and no later heartbeat is sent.
C5_FailedHeartbeatStops ==
    \A k \in 2..Len(mon_resps) :
        Failed(mon_resps[k])
            => /\ k = Len(mon_resps)
               /\ Len(mon_calls) = k
               /\ MonitoringOver
               /\ mon_ret = <<FALSE>>
               /\ heartbeat[1].valid = <<FALSE>>

\* After a heartbeat that kept monitoring, one is answered 500 with a body
\* that says valid true and time left, and the loop has returned.
C5_Witness ==
    /\ Len(mon_resps) = 3
    /\ mon_resps[3].err = "none"
    /\ mon_resps[3].status = 500
    /\ mon_resps[3].valid = <<TRUE>>
    /\ mon_resps[3].total = <<MaxMinutes>>
    /\ mon_pc = "returned"

\* ------------------------------------------------------------------ C6

\* Login answered 200 with a token, check answered 200 with valid true, hwid
\* save answered 200.
AllSucceeded(w) ==
    /\ Len(w.resps) = 3
    /\ \A k \in 1..3 : w.resps[k].err = "none" /\ w.resps[k].status = 200
    /\ w.resps[1].json /\ w.resps[1].token # <<>>
    /\ w.resps[2].json /\ w.resps[2].valid = <<TRUE>>

\* C6: a run emits finished(True, ...) exactly when its three requests
\* succeeded, and then its last signal is finished(True, "Licenca ativa! Dias
\* restantes: N") with N the days_remaining of the check answer ("??" when
\* the answer has none).
C6_SuccessOutcome ==
    \A i \in DOMAIN lws :
        /\ EmitsSuccess(lws[i]) <=> AllSucceeded(lws[i])
        /\ AllSucceeded(lws[i])
              => /\ lws[i].pc = "done"
                 /\ LastEvent(lws[i]) =
                       Finished(TRUE, "Licenca ativa! Dias restantes: "
                           \o (IF lws[i].resps[2].days = <<>> THEN "??"
                               ELSE ToString(lws[i].resps[2].days[1])))

\* The window shows the success message of a run whose check answer carried
\* days_remaining = MaxDays.
C6_Witness ==
    /\ ui_pc = "login_finished_success"
    /\ dialog[1].message = "Licenca ativa! Dias restantes: " \o ToString(MaxDays)
    /\ \E i \in DOMAIN lws :
          AllSucceeded(lws[i]) /\ lws[i].resps[2].days = <<MaxDays>>

\* ------------------------------------------------------------------ C7

LoginOrder == <<"login", "check", "save">>

IsPrefix(s, t) == Len(s) <= Len(t) /\ \A k \in 1..Len(s) : s[k] = t[k]

\* Requests sent and not yet answered.
InFlight(calls, resps) == Len(calls) - Len(resps)

\* C7: in every session the requests go out one at a time and in order: a
\* LoginWorker sends login, check, save, each after the answer to the one
\* before; the license checker sends license-status and then heartbeats, each
\* after the answer to the one before; an ExecuteWorker sends none.  No
\* session ever has two requests unanswered.
C7_OneCallAtATimeInOrder ==
    /\ \A i \in DOMAIN lws :
          /\ IsPrefix(Ops(lws[i]), LoginOrder)
          /\ InFlight(lws[i].calls, lws[i].resps) \in {0, 1}
          /\ InFlight(lws[i].calls, lws[i].resps) = 1
                <=> lws[i].pc \in {"login", "check", "save"}
    /\ \A i \in DOMAIN ews : ews[i].calls = <<>>
    /\ InFlight(mon_calls, mon_resps) \in {0, 1}
    /\ InFlight(mon_calls, mon_resps) = 1 <=> mon_pc \in {"license_status", "heartbeat"}
    /\ \A k \in DOMAIN mon_calls :
          mon_calls[k] = IF k = 1 THEN "license-status" ELSE "heartbeat"

\* The hwid save request is unanswered, the two before it are answered.
C7_Witness ==
    \E i \in DOMAIN lws :
        /\ lws[i].pc = "save"
        /\ Ops(lws[i]) = LoginOrder
        /\ Len(lws[i].resps) = 2

\* ------------------------------------------------------------------ C8

FinishedCount(w) ==
    Cardinality({k \in DOMAIN w.events : w.events[k].sig = "finished"})

\* A run that has ended has emitted finished once, as its last signal; a run
\* that has not ended has not emitted it.
OneOutcome(w) ==
    IF w.pc = "done"
    THEN FinishedCount(w) = 1 /\ LastEvent(w).sig = "finished"
    ELSE FinishedCount(w) = 0

\* C8: every LoginWorker and ExecuteWorker run emits finished exactly once,
\* on every path, the except clauses included, and nothing after it.
C8_ExactlyOneOutcome ==
    /\ \A i \in DOMAIN lws : OneOutcome(lws[i])
    /\ \A i \in DOMAIN ews : OneOutcome(ews[i])

\* A LoginWorker ended in its except clause after progress 50 (login answered
\* 200 without a token) and an ExecuteWorker ended in its except clause.
C8_Witness ==
    /\ \E i \in DOMAIN lws :
          /\ lws[i].pc = "done"
          /\ lws[i].resps[1].status = 200
          /\ lws[i].resps[1].json
          /\ lws[i].resps[1].token = <<>>
          /\ EmitsProgress(lws[i], 50)
    /\ \E i \in DOMAIN ews :
          /\ ews[i].pc = "done"
          /\ LastEvent(ews[i]) = Finished(FALSE, "Erro ao executar: OSError")
          /\ EmitsProgress(ews[i], 75)

\* ------------------------------------------------------------------ C9

\* C9: a session that has reached its end sends nothing more: a LoginWorker
\* that has emitted finished has no request unanswered and its list of
\* requests never grows, and once start_license_monitoring has returned the
\* checker has no request unanswered and sends none.
C9_NoCallsAfterTerminal ==
    [][ /\ \A i \in DOMAIN lws :
              HasFinished(lws[i])
                  => /\ InFlight(lws[i].calls, lws[i].resps) = 0
                     /\ (i \in DOMAIN lws' /\ HasFinished(lws'[i]))
                            => lws'[i].calls = lws[i].calls
        /\ mon_ret # <<>>
              => /\ InFlight(mon_calls, mon_resps) = 0
                 /\ mon_calls' = mon_calls ]_vars

\* A run failed on a 500 answer to the license check; the window has shown
\* the error and is idle again with its controls enabled.
C9_Witness ==
    /\ ui_pc = "idle"
    /\ ui_queue = <<>>
    /\ btn_login_enabled
    /\ \E i \in DOMAIN lws :
          /\ HasFinished(lws[i])
          /\ Len(lws[i].resps) = 2
          /\ lws[i].resps[2].status = 500

\* ----------------------------------------------------------------- C10

RunningLogin == {i \in DOMAIN lws : Running(lws[i])}

RunningExecute == {i \in DOMAIN ews : Running(ews[i])}

\* C10: at most one LoginWorker runs at a time and no LoginWorker runs while
\* an ExecuteWorker does; while either runs, the controls that start a task
\* (login button, password field, execute button) are disabled.
C10_OneTaskAtATime ==
    /\ Cardinality(RunningLogin) <= 1
    /\ RunningLogin = {} \/ RunningExecute = {}
    /\ (RunningLogin # {} \/ RunningExecute # {})
          => ~btn_login_enabled /\ ~entries_enabled /\ ~btn_executar_enabled

\* A LoginWorker waits for the license check while the execute button of an
\* earlier successful login is on screen.
C10_Witness ==
    /\ btn_executar_visible
    /\ \E i \in DOMAIN lws : lws[i].pc = "check"


\* ---------------------------------------------------------------- C11

\* C11 (as the specification states it): once a login has finished with
\* success, no second authentication task is started in the process: in
\* every state after a LoginWorker has emitted finished(True, ...), no
\* LoginWorker is running.
C11_Original == logged_in => RunningLogin = {}

\* ---------------------------------------------------------------- C12

\* A heartbeat request has been sent in this process.
HeartbeatIssued == \E k \in DOMAIN mon_calls : mon_calls[k] = "heartbeat"

\* C12 (as the specification states it): when authentication, license check
\* and bind have all succeeded, a heartbeat request is eventually sent, and
\* a heartbeat request is sent only after the authentication task has
\* reported success.
C12_Original ==
    /\ logged_in ~> HeartbeatIssued
    /\ [](HeartbeatIssued => logged_in)

\* ---------------------------------------------------------------- C13

\* C13 (as the specification states it): once the stop signal has been
\* raised during monitoring, the monitor sends at most one more heartbeat.
C13_Original == stop_at # <<>> => Len(mon_calls) <= stop_at[1] + 1

\* ---------------------------------------------------------------- C14

\* C14: an ExecuteWorker is started only after a login has succeeded: in
\* every state in which an ExecuteWorker exists, some LoginWorker of the
\* process has emitted finished(True, ...) before.
C14_ExecuteOnlyAfterLogin == ews # <<>> => logged_in

\* An ExecuteWorker is downloading the executable.
C14_Witness == \E i \in DOMAIN ews : ews[i].pc = "download"

\* ---------------------------------------------------------------- C15

\* An HTTP answer whose status is not 200.
Non200(r) == r.err = "none" /\ r.status # 200

\* C15: for authenticate, check, bind, license-status and heartbeat alike, an
\* answer with a status other than 200 is a failure whatever its body says:
\* it is the last answer the task receives, no request follows it, the
\* LoginWorker ends without success and the monitor returns False.
C15_Non200IsFailure ==
    /\ \A i \in DOMAIN lws : \A k \in DOMAIN lws[i].resps :
        Non200(lws[i].resps[k]) =>
            /\ k = Len(lws[i].resps)
            /\ Len(lws[i].calls) = k
            /\ lws[i].pc = "done"
            /\ ~EmitsSuccess(lws[i])
            /\ LastEvent(lws[i]).sig = "finished"
    /\ \A k \in DOMAIN mon_resps :
        Non200(mon_resps[k]) =>
            /\ k = Len(mon_resps)
            /\ Len(mon_calls) = k
            /\ MonitoringOver
            /\ mon_ret = <<FALSE>>

\* The initial license-status check was answered 500 with a body saying
\* valid = true and time remaining.
C15_Witness ==
    /\ Len(mon_resps) = 1
    /\ Non200(mon_resps[1])
    /\ mon_resps[1].valid = <<TRUE>>
    /\ Get(mon_resps[1].total, 0) > 0
    /\ mon_pc = "returned"

\* ---------------------------------------------------------------- C16

\* How many times worker w has sent the request op.
TimesCalled(w, op) == Cardinality({k \in DOMAIN w.calls : w.calls[k].op = op})

\* C16: no automatic retry: in one run of a LoginWorker each of
\* authenticate, check-license and bind is requested at most once, whatever
\* the answers are.
C16_EachOperationAtMostOnce ==
    \A i \in DOMAIN lws : \A op \in {"login", "check", "save"} :
        TimesCalled(lws[i], op) <= 1

\* A run whose license check timed out has ended with one authenticate and
\* one check request.
C16_Witness ==
    \E i \in DOMAIN lws :
        /\ lws[i].pc = "done"
        /\ Len(lws[i].resps) = 2
        /\ lws[i].resps[2].err = "timeout"
        /\ TimesCalled(lws[i], "login") = 1
        /\ TimesCalled(lws[i], "check") = 1

\* ---------------------------------------------------------------- C17

MsgCredentials == "Credenciais invalidas."

\* Why a run that ended without success failed, read from the answers it
\* received: the last one is the one that stopped it.
Cause(w) ==
    LET n == Len(w.resps)
        r == w.resps[n]
    IN  IF r.err \in {"timeout", "conn"} THEN "transport"
        ELSE IF r.err # "none" THEN "other"
        ELSE IF n = 1 /\ r.status # 200 THEN "credentials"
        ELSE IF n = 2 /\ r.status = 200 /\ r.json /\ ~Get(r.valid, FALSE)
        THEN "license"
        ELSE IF n = 3 /\ r.status # 200 THEN "device"
        ELSE "other"

\* The kind a receiver reads off the text of a failure outcome.  The window
\* shows the text with the LICENSE_EXPIRED: marker removed.
Kind(text) ==
    IF text \in {MsgLicenseExpired, CleanMessage(MsgLicenseExpired)} THEN "license"
    ELSE IF text = MsgUnauthorized THEN "device"
    ELSE IF text = MsgCredentials THEN "credentials"
    ELSE IF text \in {MsgTimeout, MsgConnection} THEN "transport"
    ELSE "other"

\* C17: the failure outcome tells its cause: the text a LoginWorker emits
\* with finished(False, ...), and the text the window then shows, are those
\* of the kind of the failure (license expired or invalid, unauthorized
\* device, rejected credentials, transport failure, other), so outcomes of
\* two different kinds always differ, and the license kind alone gets the
\* "Licenca Expirada" box.
C17_OutcomeTellsCause ==
    /\ \A i \in DOMAIN lws :
        lws[i].pc = "done" /\ ~EmitsSuccess(lws[i]) =>
            /\ LastEvent(lws[i]).sig = "finished"
            /\ Kind(LastEvent(lws[i]).text) = Cause(lws[i])
    /\ ui_pc = "login_finished_failure" =>
            /\ Kind(dialog[1].message) = Cause(lws[Len(lws)])
            /\ dialog[1].title = "Licenca Expirada"
                   <=> Cause(lws[Len(lws)]) = "license"

\* The window shows the timeout text for a run whose hwid save timed out.
C17_Witness ==
    /\ ui_pc = "login_finished_failure"
    /\ dialog[1].message = MsgTimeout
    /\ Len(lws[Len(lws)].resps) = 3

\* ---------------------------------------------------------------- C18

\* C18: the fingerprint generators are deterministic within a process: a
\* value gerar_hwid() or generate_hwid() has returned is the value a further
\* call returns in any later state, whatever number uuid.getnode() would
\* make up and however many calls were made before.
C18_FingerprintDeterministic ==
    /\ \A i \in DOMAIN lws :
        lws[i].hwid_atual # <<>> =>
            \A random \in RandomNodes :
                gerar_hwid(uuid_getnode(uuid_node, random)) = lws[i].hwid_atual[1]
    /\ hwid # <<>> =>
            \A randoms \in [1..6 -> RandomNodes] :
                generate_hwid(GetNodes(uuid_node, randoms)) = hwid[1]

\* On the computer without a hardware address a LoginWorker has computed
\* its hwid after an earlier run of the process had computed one and
\* succeeded.
C18_Witness ==
    /\ machine.mac = <<>>
    /\ logged_in
    /\ \E i \in DOMAIN lws : lws[i].pc = "check" /\ lws[i].hwid_atual # <<>>

\* ---------------------------------------------------------------- C19

\* What the monitor has decided on the last answer it received.
Decision == IF MonitoringOver THEN "expire" ELSE "continue"

\* The decision as a function of one answer: of the initial check, which
\* must say valid, and of a heartbeat, which must also leave minutes.
DecisionOfInitial(r) ==
    IF ~Failed(r) /\ r.valid = <<TRUE>> THEN "continue" ELSE "expire"

DecisionOfHeartbeat(r) ==
    IF ~Failed(r) /\ r.valid = <<TRUE>> /\ Get(r.total, 0) > 0
    THEN "continue" ELSE "expire"

\* C19: the monitor's decision is a function of the most recent answer
\* alone: after every history of answers it is the decision that answer
\* gives by itself, so two histories that end in the same heartbeat answer
\* end in the same decision, whatever came before and however long they are.
C19_DecisionByLastResponse ==
    mon_resps # <<>> =>
        Decision = IF Len(mon_resps) = 1
                   THEN DecisionOfInitial(mon_resps[1])
                   ELSE DecisionOfHeartbeat(mon_resps[Len(mon_resps)])

\* The third heartbeat is answered like the first, with one minute left,
\* after a second that reported more; the monitor goes on.
C19_Witness ==
    /\ Len(mon_resps) = 4
    /\ mon_resps[4] = mon_resps[2]
    /\ mon_resps[4].total = <<1>>
    /\ mon_resps[3].total = <<MaxMinutes>>
    /\ mon_pc = "sleep"

\* ---------------------------------------------------------------- C20

IsHeartbeatLine(l) == l.text = "[HEARTBEAT] Tempo restante"

\* The remaining-time updates printed so far.
HeartbeatLines == SelectSeq(printed, IsHeartbeatLine)

SaysValid(d) == Get(d.valid, FALSE)

\* The results of the heartbeats answered so far that say valid.
ValidHeartbeats ==
    SelectSeq([k \in 1..(Len(mon_resps) - 1) |-> send_heartbeat(mon_resps[k + 1])],
              SaysValid)

\* C20 (as the specification states it): the remaining time is printed as
\* an update only for a heartbeat that keeps monitoring running: every
\* update line shows a balance above 0 minutes.
C20_Original ==
    \A k \in DOMAIN HeartbeatLines : HeartbeatLines[k].remaining[1] > 0

\* C20 (amended): the remaining time is printed as an update for every
\* heartbeat whose result says valid, whatever its balance: the update lines
\* are, in order, the balances of those results, and a result that is valid
\* with no minutes left is printed as an update and then as expired.
C20_UpdateForEveryValidHeartbeat ==
    /\ Len(HeartbeatLines) = Len(ValidHeartbeats)
    /\ \A k \in DOMAIN HeartbeatLines :
        HeartbeatLines[k].remaining = <<Get(ValidHeartbeats[k].total, 0)>>
    /\ Len(mon_resps) >= 2 /\ MonitoringOver /\ SaysValid(heartbeat[1]) =>
        /\ printed[Len(printed) - 1] = Line("[HEARTBEAT] Tempo restante",
                                            <<Get(heartbeat[1].total, 0)>>)
        /\ printed[Len(printed)] = Line("[ERRO] Licenca expirada!", <<>>)

\* The second heartbeat was answered valid with 0 minutes left and the
\* monitor has returned.
C20_Witness ==
    /\ Len(mon_resps) = 3
    /\ ~Failed(mon_resps[3])
    /\ mon_resps[3].valid = <<TRUE>>
    /\ mon_resps[3].total = <<0>>
    /\ mon_ret = <<FALSE>>
    /\ Len(HeartbeatLines) = 2

\* ---------------------------------------------------------------- C21

\* C21: while monitoring, every heartbeat request is preceded by exactly one
\* wait of the fixed interval: the step before it is one completed sleep of
\* 60 seconds, the step before that the evaluation of the earlier result,
\* and the step before that the request which got that result; the first
\* heartbeat follows the initial check, whose result said valid.
C21_OneWaitBeforeEachHeartbeat ==
    \A k \in DOMAIN mon_trace :
        mon_trace[k].step = "heartbeat" =>
            /\ k >= 4
            /\ mon_trace[k - 1] = TraceStep("sleep", HeartbeatInterval)
            /\ mon_trace[k - 2].step = "evaluate"
            /\ mon_trace[k - 3].step = IF k = 4 THEN "license-status" ELSE "heartbeat"
            /\ SaysValid(status[1])

\* A second heartbeat has been sent.
C21_Witness ==
    /\ Len(mon_trace) >= 7
    /\ mon_trace[7].step = "heartbeat"

\* ---------------------------------------------------------------- C22

\* The heartbeats sent so far.
HeartbeatsSent == Cardinality({k \in DOMAIN mon_calls : mon_calls[k] = "heartbeat"})

\* The monitor has returned False on a heartbeat that left no minutes or
\* was not valid.
Expired == mon_ret = <<FALSE>> /\ heartbeat # <<>> /\ Expiring(heartbeat[1])

C23_FingerprintReadOnly ==
    /\ Len(mon_bodies) = Len(mon_calls)
    /\ \A k \in DOMAIN mon_bodies :
        hwid # <<>> /\ mon_bodies[k] = [hwid |-> hwid[1]]
    /\ \A i \in DOMAIN lws :
        Len(lws[i].calls) = 3 =>
            /\ lws[i].hwid_atual # <<>>
            /\ lws[i].save_json = <<[hwid |-> lws[i].hwid_atual[1]]>>
            /\ lws[i].calls[3].op = "save"
            /\ lws[i].resps[1].token # <<>>
            /\ lws[i].calls[3].token = lws[i].resps[1].token
            /\ lws[i].calls[2].token = lws[i].resps[1].token

\* On the computer without a hardware address the checker has sent the
\* initial check and two heartbeats.
C23_Witness ==
    /\ machine.mac = <<>>
    /\ Len(mon_bodies) = 3
    /\ mon_calls[3] = "heartbeat"

\* ---------------------------------------------------------------- C24

\* C24: if the initial license-status check is not valid (it raised, was
\* answered with a status other than 200, or its body says valid false or
\* nothing), start_license_monitoring returns False at once: it has made
\* that one request, has not slept and sends no heartbeat.
C24_InvalidInitialCheckReturns ==
    mon_resps # <<>> /\ DecisionOfInitial(mon_resps[1]) = "expire" =>
        /\ mon_calls = <<"license-status">>
        /\ mon_trace = <<TraceStep("license-status", 0), TraceStep("evaluate", 0)>>
        /\ heartbeat = <<>>
        /\ mon_ret = <<FALSE>>
        /\ MonitoringOver

\* The initial check was answered 200 with a body without "valid" and main
\* has ended.
C24_Witness ==
    /\ Len(mon_resps) = 1
    /\ ~Failed(mon_resps[1])
    /\ mon_resps[1].valid = <<>>
    /\ mon_pc = "exit"

\* ---------------------------------------------------------------- C25

\* C25: start_license_monitoring never returns True: whenever it has
\* returned, it returned False, and main never takes the branch that starts
\* the cheat.
C25_NeverReturnsTrue ==
    /\ mon_ret \in {<<>>, <<FALSE>>}
    /\ MonitoringOver <=> mon_ret = <<FALSE>>
    /\ main_out # <<"Iniciando cheat...">>
    /\ mon_pc = "exit" => main_out = <<"Nao e possivel iniciar - licenca invalida">>

\* main has ended after a heartbeat that reported no minutes left.
C25_Witness ==
    /\ mon_pc = "exit"
    /\ Len(mon_resps) >= 2
    /\ SaysValid(heartbeat[1])
    /\ main_out # <<>>

\* ---------------------------------------------------------------- C26

IsProgress(ev) == ev.sig = "progress"

\* The progress values worker w has emitted, in order.
ProgressValues(w) ==
    LET evs == SelectSeq(w.events, IsProgress)
    IN  [k \in 1..Len(evs) |-> evs[k].n]

\* The k-th answer worker w received is an HTTP 200.
Answered200(w, k) == Len(w.resps) >= k /\ ~Failed(w.resps[k])

\* C26: the progress values of one LoginWorker run are 20, 50, 80, 100 taken
\* in this order without repetition; 20 is emitted when the run starts, 50
\* exactly when the login is answered 200, 80 exactly when the license check
\* is answered 200 with a valid license, 100 exactly when the hwid save is
\* answered 200, which is exactly when the run ends with success.
C26_ProgressMarksSteps ==
    \A i \in DOMAIN lws :
        LET w == lws[i] IN
        /\ IsPrefix(ProgressValues(w), <<20, 50, 80, 100>>)
        /\ EmitsProgress(w, 20) <=> w.pc # "started"
        /\ EmitsProgress(w, 50) <=> Answered200(w, 1)
        /\ EmitsProgress(w, 80) <=>
               /\ Answered200(w, 2)
               /\ w.resps[2].json
               /\ Get(w.resps[2].valid, FALSE)
        /\ EmitsProgress(w, 100) <=> Answered200(w, 3)
        /\ EmitsProgress(w, 100) <=> EmitsSuccess(w)

\* A run has ended at progress 80: its hwid save was rejected.
C26_Witness ==
    \E i \in DOMAIN lws :
        /\ lws[i].pc = "done"
        /\ ProgressValues(lws[i]) = <<20, 50, 80>>
        /\ lws[i].resps[3].status = 403

====
